---------------------------- MODULE Spec2Model ----------------------------
(* A model of jjstack (src/src/main.rs): the stack builder, the navigation   *)
(* block renderer, the block removal / insertion on PR descriptions, and the *)
(* main loop that previews or applies the updates.                           *)
(*                                                                           *)
(* A Rust String is modelled as a sequence of one-byte strings; the three    *)
(* bytes of the UTF-8 encoding of U+25C1 are written "E2", "97", "81".       *)
EXTENDS Integers, Sequences, FiniteSets, TLC

VARIABLES
    \* build_pr_stacks
    prs,          \* the argument: Vec<PullRequest>
    head,         \* HashMap<String, PullRequest>, keyed by head branch
    child_idx,    \* HashMap<String, PullRequest>, keyed by the parent's head
    visited,      \* HashSet<String>
    stacks,       \* Vec<Vec<PullRequest>>
    current,      \* the PullRequest the walks stand on
    chain,        \* the chain being collected
    i,            \* position of `for pr in &prs`
    \* main
    apply,        \* args.contains("--apply")
    si,           \* position of `for stack in pr_stacks`
    mi,           \* position of `for pr in &stack`
    nav_block,    \* argument of update_pr_description
    gh_pr_body,   \* the body fetched by update_pr_description
    new_body,     \* the body computed by update_pr_description
    attempts,     \* PR numbers update_pr_description was called for, in order
    errs,         \* PR numbers reported on stderr, in order
    out,          \* report lines on stdout: <<number, kind>>
    nwrites,      \* number of PATCH requests issued
    fetched,      \* number of the PR whose body this update step fetched, or 0
    result,       \* what main returned: "none" while running
    \* the text operations applied on their own
    tbody,        \* the text
    tprev,        \* the text before the last operation
    torig,        \* the text the run started with
    tblock,       \* the block inserted
    tops,         \* the operations applied so far
    \* the program counter
    pc

buildVars == <<prs, head, child_idx, visited, stacks, current, chain, i>>
mainVars == <<apply, si, mi, nav_block, gh_pr_body, new_body, attempts, errs, out,
              nwrites, fetched, result>>
textVars == <<tbody, tprev, torig, tblock, tops>>
vars == <<prs, head, child_idx, visited, stacks, current, chain, i,
          apply, si, mi, nav_block, gh_pr_body, new_body, attempts, errs, out,
          nwrites, fetched, result, tbody, tprev, torig, tblock, tops, pc>>

-----------------------------------------------------------------------------
(* Bounds *)

\* Longest list of requests handed to build_pr_stacks on its own.
MaxPRs == 3
\* Longest list of requests of a whole run of main.
MaxMainPRs == 2
\* Number of pieces a text is put together from.
MaxSegs == 3
\* Number of elements a Vec may hold before the allocation fails.
MaxChainLen == 5

-----------------------------------------------------------------------------
(* Strings *)

STACK_HEADER ==
    <<"<", "!", "-", "-", " ", "S", "T", "A", "C", "K", " ", "N", "A", "V", "I",
      "G", "A", "T", "I", "O", "N", " ", "-", "-", ">">>

STACK_FOOTER ==
    <<"<", "!", "-", "-", " ", "E", "N", "D", " ", "S", "T", "A", "C", "K", " ",
      "N", "A", "V", "I", "G", "A", "T", "I", "O", "N", " ", "-", "-", ">">>

None == -1

\* char::is_whitespace, on the whitespace of the model's alphabet
IsWhitespace(c) == c \in {" ", "\n", "\t", "\r"}

\* str::starts_with at byte offset `at` (0-based)
MatchesAt(s, pat, at) ==
    /\ at + Len(pat) <= Len(s)
    /\ \A k \in 1..Len(pat) : s[at + k] = pat[k]

\* The byte offsets at which pat occurs in s
Matches(s, pat) == {at \in 0..(Len(s) - Len(pat)) : MatchesAt(s, pat, at)}

Least(S) == CHOOSE x \in S : \A y \in S : x <= y

Greatest(S) == CHOOSE x \in S : \A y \in S : y <= x

\* str::find: the byte offset of the first occurrence, or None
Find(s, pat) == IF Matches(s, pat) = {} THEN None ELSE Least(Matches(s, pat))

\* str::contains
Contains(s, pat) == Find(s, pat) # None

\* The positions of s that hold no whitespace
Solid(s) == {k \in 1..Len(s) : ~IsWhitespace(s[k])}

\* str::trim_start
TrimStart(s) == IF Solid(s) = {} THEN <<>> ELSE SubSeq(s, Least(Solid(s)), Len(s))

\* str::trim_end
TrimEnd(s) == IF Solid(s) = {} THEN <<>> ELSE SubSeq(s, 1, Greatest(Solid(s)))

\* str::trim
Trim(s) == TrimEnd(TrimStart(s))

Digit(d) == <<"0", "1", "2", "3", "4", "5", "6", "7", "8", "9">>[d + 1]

\* Display of a non-negative integer
RECURSIVE ToDecimal(_)
ToDecimal(n) ==
    IF n < 10 THEN <<Digit(n)>> ELSE ToDecimal(n \div 10) \o <<Digit(n % 10)>>

-----------------------------------------------------------------------------
(* remove_nav_block *)

\* The text before the header taken as it is, its whitespace not trimmed.
remove_nav_block_untrimmed(body) ==
    LET start == Find(body, STACK_HEADER)
        footer == Find(body, STACK_FOOTER)
    IN  IF start = None THEN body
        ELSE IF footer = None THEN body
        ELSE LET end == footer + Len(STACK_FOOTER)
                 before == SubSeq(body, 1, start)
                 after == Trim(SubSeq(body, end + 1, Len(body)))
             IN  IF before = <<>> \/ after = <<>> THEN before \o after
                 ELSE before \o <<"\n">> \o after

remove_nav_block(body) ==
    LET start == Find(body, STACK_HEADER)
        footer == Find(body, STACK_FOOTER)
    IN  IF start = None THEN body
        ELSE IF footer = None THEN body
        ELSE LET end == footer + Len(STACK_FOOTER)
                 before == Trim(SubSeq(body, 1, start))
                 after == Trim(SubSeq(body, end + 1, Len(body)))
             IN  IF before = <<>> \/ after = <<>> THEN before \o after
                 ELSE before \o <<"\n">> \o after

-----------------------------------------------------------------------------
(* generate_nav_block *)

NavLine(idx, pr, current_branch) ==
    LET suffix == IF pr.head = current_branch THEN <<" ", "E2", "97", "81">>
                  ELSE <<>>
    IN  ToDecimal(idx) \o <<".", " ", "P", "R", " ", "#">> \o ToDecimal(pr.number)
          \o <<" ", "(", "b", "r", "a", "n", "c", "h", ":", " ">> \o pr.head
          \o <<")">> \o suffix \o <<"\n">>

RECURSIVE NavLines(_, _, _)
NavLines(c, k, current_branch) ==
    IF k > Len(c) THEN <<>>
    ELSE NavLine(k, c[k], current_branch) \o NavLines(c, k + 1, current_branch)

generate_nav_block(c, current_branch) ==
    STACK_HEADER \o <<"\n">>
      \o <<"S", "t", "a", "c", "k", " ", "o", "f", " ", "c", "h", "a", "n", "g",
           "e", "s", ":">> \o <<"\n">>
      \o NavLines(c, 1, current_branch)
      \o STACK_FOOTER \o <<"\n">>

-----------------------------------------------------------------------------
(* update_pr_description: the body computed from the fetched one *)

NewBody(body, block) ==
    LET cleaned == remove_nav_block(body)
    IN  IF block # <<>>
        THEN (IF cleaned # <<>> /\ cleaned[Len(cleaned)] # "\n"
              THEN cleaned \o <<"\n">> ELSE cleaned)
               \o <<"\n">> \o block \o <<"\n">>
        ELSE cleaned

-----------------------------------------------------------------------------
(* The text operations on their own: remove_nav_block and the body           *)
(* computation of update_pr_description applied to bounded texts.            *)

\* The pieces the texts are put together from: the two markers, the opening
\* of a marker, a letter and two kinds of whitespace.
Pieces ==
    {STACK_HEADER, STACK_FOOTER, <<"<", "!", "-", "-">>, <<"a">>, <<" ">>, <<"\n">>}

RECURSIVE TextsOf(_)
TextsOf(n) ==
    IF n = 0 THEN {<<>>}
    ELSE LET shorter == TextsOf(n - 1)
         IN  shorter \cup {t \o p : t \in shorter, p \in Pieces}

Texts == TextsOf(MaxSegs)

\* A chain of two requests, as build_pr_stacks returns it.
TextChain ==
    <<[number |-> 7, head |-> <<"f", "1">>, base |-> <<"m", "a", "i", "n">>,
       body |-> <<>>],
      [number |-> 12, head |-> <<"f", "2">>, base |-> <<"f", "1">>,
       body |-> <<>>]>>

\* The blocks rendered for the members of the chain.
Blocks == {generate_nav_block(TextChain, TextChain[k].head) : k \in 1..Len(TextChain)}

\* The sequences of operations applied to a text.
TextPlans ==
    {<<"insert", "insert", "insert">>, <<"insert", "remove">>, <<"remove", "remove">>}

IsPrefix(s, t) == Len(s) <= Len(t) /\ SubSeq(t, 1, Len(s)) = s

InPlan(ops) == \E plan \in TextPlans : IsPrefix(ops, plan)

Idle == <<>>

InitText ==
    /\ pc = "text"
    /\ torig \in Texts
    /\ tbody = torig
    /\ tprev = torig
    /\ tblock \in Blocks
    /\ tops = <<>>
    /\ prs = <<>> /\ head = <<>> /\ child_idx = <<>> /\ visited = {}
    /\ stacks = <<>> /\ current = Idle /\ chain = <<>> /\ i = 0
    /\ apply = FALSE /\ si = 0 /\ mi = 0 /\ nav_block = <<>>
    /\ gh_pr_body = <<>> /\ new_body = <<>> /\ attempts = <<>> /\ errs = <<>>
    /\ out = <<>> /\ nwrites = 0 /\ fetched = 0 /\ result = "none"

\* tbody = remove_nav_block(tbody)
TextRemove ==
    /\ pc = "text"
    /\ InPlan(Append(tops, "remove"))
    /\ tprev' = tbody
    /\ tbody' = remove_nav_block(tbody)
    /\ tops' = Append(tops, "remove")
    /\ UNCHANGED <<torig, tblock, pc, buildVars, mainVars>>

\* tbody = the body update_pr_description computes from tbody and tblock
TextInsert ==
    /\ pc = "text"
    /\ InPlan(Append(tops, "insert"))
    /\ tprev' = tbody
    /\ tbody' = NewBody(tbody, tblock)
    /\ tops' = Append(tops, "insert")
    /\ UNCHANGED <<torig, tblock, pc, buildVars, mainVars>>

NextText == TextRemove \/ TextInsert

SpecText == InitText /\ [][NextText]_vars

-----------------------------------------------------------------------------
(* Properties of the text operations *)

\* Number of occurrences of pat in s
Occurrences(s, pat) == Cardinality(Matches(s, pat))

HasMarker(s) == Contains(s, STACK_HEADER) \/ Contains(s, STACK_FOOTER)

LastOp == IF tops = <<>> THEN "none" ELSE tops[Len(tops)]

\* C4: remove_nav_block is idempotent: applied to its own result it changes
\* nothing, whatever markers the text holds.
C4_RemoveIdempotent ==
    tops = <<"remove", "remove">> => tbody = tprev

\* C5: after the same block was inserted twice, a third insertion changes
\* nothing, and the body holds the header and the footer exactly once each.
C5_InsertStable ==
    tops = <<"insert", "insert", "insert">> =>
        /\ tbody = tprev
        /\ Occurrences(tprev, STACK_HEADER) = 1
        /\ Occurrences(tprev, STACK_FOOTER) = 1

\* C6 as claimed: inserting a block into a body without markers and removing
\* it again gives the body back with only its trailing whitespace stripped;
\* leading whitespace stays.
C6_RoundTripKeepsLeading ==
    (tops = <<"insert", "remove">> /\ ~HasMarker(torig)) => tbody = TrimEnd(torig)

\* C6 as amended: inserting a block into a body without markers and removing
\* it again gives the body back with the whitespace at both of its ends
\* stripped, and nothing else changed.
C6_RoundTripTrims ==
    (tops = <<"insert", "remove">> /\ ~HasMarker(torig)) => tbody = Trim(torig)

C6_Witness ==
    /\ tops = <<"insert", "remove">>
    /\ ~HasMarker(torig)
    /\ torig = <<" ", "a", "\n">>
    /\ tbody = <<"a">>

\* C10: remove_nav_block never returns a longer text, and returns a strictly
\* shorter one when the text holds both markers.
C10_RemoveOnlyDeletes ==
    LastOp = "remove" =>
        /\ Len(tbody) <= Len(tprev)
        /\ (Contains(tprev, STACK_HEADER) /\ Contains(tprev, STACK_FOOTER)
              => Len(tbody) < Len(tprev))

-----------------------------------------------------------------------------
(* build_pr_stacks *)

\* The branch names of the model
Heads == {<<"f", "1">>, <<"f", "2">>, <<"f", "3">>}

Bases == Heads \cup {<<"m", "a", "i", "n">>}

\* The request lists of 1..maxn requests over the given heads, bases and
\* bodies; the k-th request of a list has number k.
Inputs(maxn, heads, bases, bodies) ==
    UNION {{[k \in 1..n |-> [number |-> k, head |-> f[k][1], base |-> f[k][2],
                             body |-> f[k][3]]] :
              f \in [1..n -> heads \X bases \X bodies]} : n \in 1..maxn}

\* HashMap::insert
Put(m, key, value) == [x \in DOMAIN m \cup {key} |-> IF x = key THEN value ELSE m[x]]

\* lines 175-178: the map after the first n requests were inserted
RECURSIVE HeadIndex(_, _)
HeadIndex(list, n) ==
    IF n = 0 THEN <<>>
    ELSE Put(HeadIndex(list, n - 1), list[n].head, list[n])

\* lines 179-184: the map after the first n requests were looked at
RECURSIVE ChildIndex(_, _, _)
ChildIndex(list, heads, n) ==
    IF n = 0 THEN <<>>
    ELSE LET rest == ChildIndex(list, heads, n - 1)
         IN  IF list[n].base \in DOMAIN heads
             THEN Put(rest, heads[list[n].base].head, list[n])
             ELSE rest

\* The element put in front instead of at the end.
PushFront(v, x) == <<x>> \o v

\* Vec::push
Push(v, x) == Append(v, x)

InitBuild ==
    /\ pc = "build"
    /\ head = <<>> /\ child_idx = <<>> /\ visited = {}
    /\ stacks = <<>> /\ current = Idle /\ chain = <<>> /\ i = 0
    /\ si = 0 /\ mi = 0 /\ nav_block = <<>>
    /\ gh_pr_body = <<>> /\ new_body = <<>> /\ attempts = <<>> /\ errs = <<>>
    /\ out = <<>> /\ nwrites = 0 /\ fetched = 0 /\ result = "none"
    /\ tbody = <<>> /\ tprev = <<>> /\ torig = <<>> /\ tblock = <<>> /\ tops = <<>>

InitStacks ==
    /\ prs \in Inputs(MaxPRs, Heads, Bases, {<<>>})
    /\ apply = FALSE
    /\ InitBuild

\* lines 175-186
BuildIndexes ==
    /\ pc = "build"
    /\ head' = HeadIndex(prs, Len(prs))
    /\ child_idx' = ChildIndex(prs, head', Len(prs))
    /\ visited' = {}
    /\ stacks' = <<>>
    /\ i' = 1
    /\ pc' = "for"
    /\ UNCHANGED <<prs, current, chain, mainVars, textVars>>

\* line 207: the for loop is over, the stacks are returned
ForDone ==
    /\ pc = "for"
    /\ i > Len(prs)
    /\ pc' = "returned"
    /\ UNCHANGED <<buildVars, mainVars, textVars>>

\* lines 188-190
ForSkip ==
    /\ pc = "for"
    /\ i <= Len(prs)
    /\ prs[i].head \in visited
    /\ i' = i + 1
    /\ UNCHANGED <<prs, head, child_idx, visited, stacks, current, chain, pc,
                   mainVars, textVars>>

\* line 191
ForStart ==
    /\ pc = "for"
    /\ i <= Len(prs)
    /\ prs[i].head \notin visited
    /\ current' = prs[i]
    /\ pc' = "back"
    /\ UNCHANGED <<prs, head, child_idx, visited, stacks, chain, i, mainVars,
                   textVars>>

\* line 192: the backward walk finds a parent
BackTest ==
    /\ pc = "back"
    /\ current.base \in DOMAIN head
    /\ pc' = "back_body"
    /\ UNCHANGED <<buildVars, mainVars, textVars>>

\* line 193: the walk moves to the parent
BackAssign ==
    /\ pc = "back_body"
    /\ current' = head[current.base]
    /\ pc' = "back"
    /\ UNCHANGED <<prs, head, child_idx, visited, stacks, chain, i, mainVars,
                   textVars>>

\* lines 192, 195: no parent, the root is found
BackRoot ==
    /\ pc = "back"
    /\ current.base \notin DOMAIN head
    /\ chain' = <<>>
    /\ pc' = "fwd"
    /\ UNCHANGED <<prs, head, child_idx, visited, stacks, current, i, mainVars,
                   textVars>>

\* lines 196-200: one round of the forward walk, a child follows
FwdStep ==
    /\ pc = "fwd"
    /\ Len(chain) < MaxChainLen
    /\ current.head \in DOMAIN child_idx
    /\ visited' = visited \cup {current.head}
    /\ chain' = Push(chain, current)
    /\ current' = child_idx[current.head]
    /\ UNCHANGED <<prs, head, child_idx, stacks, i, pc, mainVars, textVars>>

\* lines 196-205: the last round of the forward walk, the chain is complete
FwdBreak ==
    /\ pc = "fwd"
    /\ Len(chain) < MaxChainLen
    /\ current.head \notin DOMAIN child_idx
    /\ visited' = visited \cup {current.head}
    /\ stacks' = Push(stacks, Push(chain, current))
    /\ chain' = <<>>
    /\ current' = Idle
    /\ i' = i + 1
    /\ pc' = "for"
    /\ UNCHANGED <<prs, head, child_idx, mainVars, textVars>>

\* line 198: the chain cannot grow any more, the allocation fails and the
\* process is aborted
FwdAbort ==
    /\ pc = "fwd"
    /\ Len(chain) >= MaxChainLen
    /\ pc' = "aborted"
    /\ UNCHANGED <<buildVars, mainVars, textVars>>

NextStacks ==
    \/ BuildIndexes
    \/ ForDone
    \/ ForSkip
    \/ ForStart
    \/ BackTest
    \/ BackAssign
    \/ BackRoot
    \/ FwdStep
    \/ FwdBreak
    \/ FwdAbort

SpecStacks == InitStacks /\ [][NextStacks]_vars

\* The program is one thread that keeps running.
FairSpecStacks == SpecStacks /\ WF_vars(NextStacks)

-----------------------------------------------------------------------------
(* Properties of build_pr_stacks *)

DistinctHeads(list) ==
    \A j, k \in 1..Len(list) : list[j].head = list[k].head => j = k

RECURSIVE Flatten(_)
Flatten(ss) == IF ss = <<>> THEN <<>> ELSE Head(ss) \o Flatten(Tail(ss))

Linked(c) == \A k \in 1..(Len(c) - 1) : c[k + 1].base = c[k].head

\* C1: when the heads are pairwise distinct, the returned chains hold every
\* request exactly once.
C1_Partition ==
    (pc = "returned" /\ DistinctHeads(prs)) =>
        LET all == Flatten(stacks)
        IN  \A k \in 1..Len(prs) :
                Cardinality({j \in 1..Len(all) : all[j] = prs[k]}) = 1

\* C2: build_pr_stacks returns on every list of requests.
C2_Terminates == <>(pc = "returned")

\* C3: in every chain, returned or being collected, each member's base is
\* the head of the member before it.
C3_Order ==
    /\ \A s \in 1..Len(stacks) : Linked(stacks[s])
    /\ Linked(chain)

C3_Witness ==
    /\ pc = "returned"
    /\ \E s \in 1..Len(stacks) : Len(stacks[s]) >= 2
    /\ \E j, k \in 1..Len(prs) :
          j # k /\ prs[j].base = prs[k].base /\ prs[j].base \in DOMAIN head

-----------------------------------------------------------------------------
(* main, from the call of build_pr_stacks on, and update_pr_description *)

MainHeads == {<<"f", "1">>, <<"f", "2">>}

MainBases == MainHeads \cup {<<"m", "a", "i", "n">>}

\* A description that holds a block an earlier run left.
StaleBody ==
    <<"a", "\n">> \o STACK_HEADER \o <<"\n", "o", "l", "d", "\n">> \o STACK_FOOTER
      \o <<"\n">>

\* The descriptions the listing of the open requests gives.
ListedBodies == {<<>>, STACK_FOOTER, StaleBody}

\* The descriptions the fetch of one request may give: the hosting platform
\* holds them, and they may have changed since the listing. The last one is
\* the description an earlier run with the same block left.
FetchBodies(block) ==
    {<<>>, <<"a">>, STACK_HEADER, StaleBody,
     STACK_FOOTER \o <<"a">> \o STACK_HEADER,
     NewBody(<<"a">>, block)}

InitMain ==
    /\ prs \in Inputs(MaxMainPRs, MainHeads, MainBases, ListedBodies)
    /\ apply \in BOOLEAN
    /\ InitBuild

\* The request the loops of main stand on; mi = 0 in the branch of the
\* chains of one member.
CurPR == IF mi = 0 THEN stacks[si][1] ELSE stacks[si][mi]

\* line 100
ListedWithMarker(pr) ==
    ~(~Contains(pr.body, STACK_HEADER) /\ ~Contains(pr.body, STACK_FOOTER))

\* The comparison of line 261 left out: every update writes.
AlwaysWrite(computed, fetched_body) == TRUE

\* line 261: the PATCH is needed
NeedsWrite(computed, fetched_body) == computed # fetched_body

\* The locals of update_pr_description are dropped, the loop goes on with
\* the next request.
Continue ==
    /\ IF mi = 0
       THEN si' = si + 1 /\ mi' = 0 /\ pc' = "stack"
       ELSE si' = si /\ mi' = mi + 1 /\ pc' = "member"
    /\ nav_block' = <<>>
    /\ gh_pr_body' = <<>>
    /\ new_body' = <<>>
    /\ fetched' = 0
    /\ result' = result

\* The error propagated with `?` instead of reported: main returns it.
ReturnErrPropagated ==
    /\ errs' = errs
    /\ out' = out
    /\ result' = "Err"
    /\ pc' = "done"
    /\ UNCHANGED <<si, mi, nav_block, gh_pr_body, new_body, fetched>>

\* lines 85-88 and 104-111: update_pr_description returned Err
ReturnErr ==
    /\ errs' = Append(errs, CurPR.number)
    /\ out' = out
    /\ Continue

\* lines 89 and 113: update_pr_description returned Ok
ReturnOk ==
    /\ out' = Append(out, <<CurPR.number, IF mi = 0 THEN "removed" ELSE "updated">>)
    /\ errs' = errs
    /\ Continue

\* lines 79-80
EnterLoop ==
    /\ pc = "returned"
    /\ si' = 1
    /\ pc' = "stack"
    /\ UNCHANGED <<buildVars, apply, mi, nav_block, gh_pr_body, new_body, attempts,
                   errs, out, nwrites, fetched, result, textVars>>

\* lines 80, 116
StackDone ==
    /\ pc = "stack"
    /\ si > Len(stacks)
    /\ result' = "Ok"
    /\ pc' = "done"
    /\ UNCHANGED <<buildVars, apply, si, mi, nav_block, gh_pr_body, new_body,
                   attempts, errs, out, nwrites, fetched, textVars>>

\* lines 81-82
StackMulti ==
    /\ pc = "stack"
    /\ si <= Len(stacks)
    /\ Len(stacks[si]) > 1
    /\ mi' = 1
    /\ pc' = "member"
    /\ UNCHANGED <<buildVars, apply, si, nav_block, gh_pr_body, new_body, attempts,
                   errs, out, nwrites, fetched, result, textVars>>

\* lines 82, 97: the members of the chain are done
MemberDone ==
    /\ pc = "member"
    /\ mi > Len(stacks[si])
    /\ si' = si + 1
    /\ mi' = 0
    /\ pc' = "stack"
    /\ UNCHANGED <<buildVars, apply, nav_block, gh_pr_body, new_body, attempts,
                   errs, out, nwrites, fetched, result, textVars>>

\* lines 83-85: update_pr_description is called with the block of the member
MemberApply ==
    /\ pc = "member"
    /\ mi <= Len(stacks[si])
    /\ apply
    /\ nav_block' = generate_nav_block(stacks[si], stacks[si][mi].head)
    /\ attempts' = Append(attempts, stacks[si][mi].number)
    /\ pc' = "fetch"
    /\ UNCHANGED <<buildVars, apply, si, mi, gh_pr_body, new_body, errs, out,
                   nwrites, fetched, result, textVars>>

\* lines 83, 90-96
MemberPreview ==
    /\ pc = "member"
    /\ mi <= Len(stacks[si])
    /\ ~apply
    /\ out' = Append(out, <<stacks[si][mi].number, "updates with">>)
    /\ mi' = mi + 1
    /\ UNCHANGED <<buildVars, apply, si, nav_block, gh_pr_body, new_body, attempts,
                   errs, nwrites, fetched, result, textVars, pc>>

\* lines 99-102: a chain of one member with no marker in its listed body
SingleSkip ==
    /\ pc = "stack"
    /\ si <= Len(stacks)
    /\ ~(Len(stacks[si]) > 1)
    /\ ~ListedWithMarker(stacks[si][1])
    /\ si' = si + 1
    /\ UNCHANGED <<buildVars, apply, mi, nav_block, gh_pr_body, new_body, attempts,
                   errs, out, nwrites, fetched, result, textVars, pc>>

\* lines 99-104: update_pr_description is called with the empty block
SingleApply ==
    /\ pc = "stack"
    /\ si <= Len(stacks)
    /\ ~(Len(stacks[si]) > 1)
    /\ ListedWithMarker(stacks[si][1])
    /\ apply
    /\ mi' = 0
    /\ nav_block' = <<>>
    /\ attempts' = Append(attempts, stacks[si][1].number)
    /\ pc' = "fetch"
    /\ UNCHANGED <<buildVars, apply, si, gh_pr_body, new_body, errs, out, nwrites,
                   fetched, result, textVars>>

\* lines 99-103, 113
SinglePreview ==
    /\ pc = "stack"
    /\ si <= Len(stacks)
    /\ ~(Len(stacks[si]) > 1)
    /\ ListedWithMarker(stacks[si][1])
    /\ ~apply
    /\ out' = Append(out, <<stacks[si][1].number, "removed">>)
    /\ si' = si + 1
    /\ UNCHANGED <<buildVars, apply, mi, nav_block, gh_pr_body, new_body, attempts,
                   errs, nwrites, fetched, result, textVars, pc>>

\* lines 240-250: the fetch fails, or what it gives cannot be parsed
FetchFail ==
    /\ pc = "fetch"
    /\ ReturnErr
    /\ UNCHANGED <<buildVars, apply, attempts, nwrites, textVars>>

\* lines 240-260: the fetch gives a body, the new body is computed
FetchOk ==
    /\ pc = "fetch"
    /\ \E b \in FetchBodies(nav_block) :
          /\ gh_pr_body' = b
          /\ new_body' = NewBody(b, nav_block)
    /\ fetched' = CurPR.number
    /\ pc' = "compare"
    /\ UNCHANGED <<buildVars, apply, si, mi, nav_block, attempts, errs, out,
                   nwrites, result, textVars>>

\* lines 261-263: nothing to write
CompareSame ==
    /\ pc = "compare"
    /\ ~NeedsWrite(new_body, gh_pr_body)
    /\ ReturnOk
    /\ UNCHANGED <<buildVars, apply, attempts, nwrites, textVars>>

\* lines 261, 264
CompareDiffers ==
    /\ pc = "compare"
    /\ NeedsWrite(new_body, gh_pr_body)
    /\ pc' = "patch"
    /\ UNCHANGED <<buildVars, apply, si, mi, nav_block, gh_pr_body, new_body,
                   attempts, errs, out, nwrites, fetched, result, textVars>>

\* lines 264-270: the gh process cannot be started, nothing is sent
PatchSpawnFail ==
    /\ pc = "patch"
    /\ ReturnErr
    /\ UNCHANGED <<buildVars, apply, attempts, nwrites, textVars>>

\* lines 264-281: the PATCH is sent and fails
PatchFail ==
    /\ pc = "patch"
    /\ nwrites' = nwrites + 1
    /\ ReturnErr
    /\ UNCHANGED <<buildVars, apply, attempts, textVars>>

\* lines 264-282: the PATCH is sent and succeeds
PatchOk ==
    /\ pc = "patch"
    /\ nwrites' = nwrites + 1
    /\ ReturnOk
    /\ UNCHANGED <<buildVars, apply, attempts, textVars>>

NextMain ==
    \/ NextStacks
    \/ EnterLoop
    \/ StackDone
    \/ StackMulti
    \/ MemberDone
    \/ MemberApply
    \/ MemberPreview
    \/ SingleSkip
    \/ SingleApply
    \/ SinglePreview
    \/ FetchFail
    \/ FetchOk
    \/ CompareSame
    \/ CompareDiffers
    \/ PatchSpawnFail
    \/ PatchFail
    \/ PatchOk

SpecMain == InitMain /\ [][NextMain]_vars

\* The program is one thread that keeps running.
FairSpecMain == SpecMain /\ WF_vars(NextMain)

-----------------------------------------------------------------------------
(* Properties of main and update_pr_description *)

InMain == pc \in {"stack", "member", "fetch", "compare", "patch", "done"}

Numbers(c) == [k \in 1..Len(c) |-> c[k].number]

Range(f) == {f[k] : k \in DOMAIN f}

\* The updates planned for the chains: every member of a chain of two or
\* more, and the member of a chain of one whose listed body holds a marker.
RECURSIVE PlannedUpdates(_)
PlannedUpdates(ss) ==
    IF ss = <<>> THEN <<>>
    ELSE (IF Len(Head(ss)) >= 2 THEN Numbers(Head(ss))
          ELSE IF HasMarker(Head(ss)[1].body) THEN <<Head(ss)[1].number>>
          ELSE <<>>) \o PlannedUpdates(Tail(ss))

\* C7: a PATCH is issued only in apply mode, only for the request whose body
\* this update step fetched, and only when the computed body differs from
\* the fetched one; when they are equal the step succeeds without a PATCH.
C7_WriteOnlyOnChange ==
    [][/\ nwrites' # nwrites =>
            /\ apply
            /\ fetched # 0 /\ fetched = CurPR.number
            /\ new_body # gh_pr_body
       /\ (pc = "compare" /\ new_body = gh_pr_body) =>
            /\ nwrites' = nwrites
            /\ errs' = errs
            /\ out' = Append(out, <<CurPR.number,
                                    IF mi = 0 THEN "removed" ELSE "updated">>)]_vars

C7_Witness ==
    /\ apply
    /\ result = "Ok"
    /\ nwrites = 1
    /\ out = <<<<1, "updated">>, <<2, "updated">>>>

C9_SingleMemberPolicy ==
    InMain =>
        /\ \A s \in 1..Len(stacks) :
              (s < si /\ Len(stacks[s]) = 1 /\ ~HasMarker(stacks[s][1].body)) =>
                  /\ stacks[s][1].number \notin Range(attempts)
                  /\ \A k \in 1..Len(out) : out[k][1] # stacks[s][1].number
        /\ (pc \in {"fetch", "compare", "patch"} /\ mi = 0) =>
              nav_block = <<>> /\ HasMarker(CurPR.body)
        /\ (pc = "patch" /\ mi = 0) =>
              /\ new_body = remove_nav_block(gh_pr_body)
              /\ ~HasMarker(new_body)

=============================================================================
